---- MODULE Spec2Model ----
(***************************************************************************)
(* Model of the throughput engine (package transfer: Run, doDownload,      *)
(* doUpload, zeroReader, countingReader) and of the endpoint resolver      *)
(* (package endpoint: Choose, resolveDoH, resolveSystem, promptChoice,     *)
(* fetchIPDesc, HostFromURL) and of config.ParseSize.                      *)
(*                                                                         *)
(* Byte quantities are counted in abstract units: a Read may return any    *)
(* number of units from 1 up to the length of the buffer it is given.      *)
(* Wall-clock time is abstracted: a deadline is an event that may happen   *)
(* at any moment, and the measured duration is drawn from DurSet.          *)
(***************************************************************************)
EXTENDS Integers, Sequences, FiniteSets, TLC

\* ------------------------------------------------------------------ bounds
MaxThreads == 2     \* largest thread count explored
MaxCap     == 2     \* largest cfg.MaxBytes explored (units)
MaxChunk   == 2     \* length of a read buffer (units); 256 KiB in doDownload
MaxTotal   == 4     \* largest threads * cfg.MaxBytes explored (units)
MaxAnswers == 3     \* most strings in a DoH body
MaxAddrs   == 2     \* most addresses net.LookupHost returns
MaxNum     == 3     \* most characters in the number of a size string
MaxReads   == 4     \* most Read calls made on one upload body

\* measured durations explored, in milliseconds
DurSet == {0, 1, 500, 1000, 2500}

Download == "Download"
Upload   == "Upload"

VARIABLES
    dir,            \* Direction of this Run
    threads,        \* number of workers
    maxBytes,       \* cfg.MaxBytes
    totalBytes,     \* the shared byte counter (Run's totalBytes)
    faultCount,     \* Run's faultCount
    ctxDone,        \* the caller's context is cancelled
    sessionExpired, \* the timeout+2s deadline of ctx2 has fired
    cancelCalled,   \* Run has called cancel() on ctx2
    rpc,            \* Run's position: "wait", "drain", "returned"
    spc,            \* sampler goroutine: "running", "exited"
    sawNegative,    \* history: a sampler tick loaded a negative counter value
    wpc,            \* worker position
    status,         \* worker: class of the HTTP status received
    total,          \* doDownload's local total
    fault,          \* worker: the fault flag of its attempt
    erred,          \* worker: a transport or read error was returned to it
    remaining,      \* upload: zeroReader.remaining
    count,          \* upload: countingReader.count
    tpc,            \* upload: the transport's body-reading goroutine
    pend,           \* upload: n of the Read between count.Add and the shared add
    sent,           \* upload: the value loaded for the rollback
    contrib,        \* history: net sum of the deltas a worker's attempt applied
    result,         \* the Result Run returned
    \* ---- package endpoint
    cpc,            \* Choose's position
    host,           \* Choose's host argument
    isTTY,          \* Choose's isTTY argument
    doh,            \* the DoH exchange as resolveDoH saw it
    ips,            \* the candidate list resolveDoH returned
    endpoints,      \* Choose's endpoints slice
    ep,             \* the Endpoint Choose returned
    calls,          \* history: the resolution steps taken, in order
    warns,          \* history: the warnings sent to the bus, in order
    line,           \* what promptChoice read from stdin
    \* ---- single calls of fetchIPDesc, ParseSize, HostFromURL
    fpc,            \* the function called, "returned" once it has returned
    arg,            \* what the call was given
    ret             \* what the call returned

engineVars == <<dir, threads, maxBytes, totalBytes, faultCount, ctxDone,
                sessionExpired, cancelCalled, rpc, spc, sawNegative, wpc, status,
                total, fault, erred, remaining, count, tpc,
                pend, sent, contrib, result>>

chooseVars == <<cpc, host, isTTY, doh, ips, endpoints, ep, calls, warns, line>>

callVars == <<fpc, arg, ret>>

vars == <<engineVars, chooseVars, callVars>>

Workers == 1..threads

Min(a, b) == IF a < b THEN a ELSE b

\* ------------------------------------------------------------ contexts
\* ctx2 of Run: derived from the caller's ctx with a deadline, cancelled by
\* cancel().
Ctx2Done_Detached == sessionExpired \/ cancelCalled
Ctx2Done == ctxDone \/ sessionExpired \/ cancelCalled

\* ctx2 of doDownload / doUpload: derived from Run's ctx2.  Its own deadline
\* is the action AttemptTimeout below.
AttemptCtxDone_Detached(w) == FALSE
AttemptCtxDone(w) == Ctx2Done

\* ------------------------------------------------------------ arithmetic
\* atomic.AddInt64(&v, d)
AtomicAddInt64_Clamped(v, d) == IF v + d < 0 THEN 0 ELSE v + d
AtomicAddInt64(v, d) == v + d

\* A float64 is modelled by an exact fraction num / den.
Rat(n, d) == [num |-> n, den |-> d]

\* dur.Seconds() followed by the guard "if secs <= 0 { secs = 1 }", for a
\* duration of durMs milliseconds; the result is in milliseconds too.
Secs_AtLeastOne(durMs) == IF durMs < 1000 THEN 1000 ELSE durMs
Secs(durMs) == IF durMs <= 0 THEN 1000 ELSE durMs

\* float64(total) * 8 / (secs * 1_000_000), secs being secsMs / 1000
MbpsOf(tot, secsMs) == Rat(tot * 8, secsMs * 1000)

HadFaultOf(fc) == fc > 0

NoResult == [Direction |-> "none", Threads |-> 0, TotalBytes |-> 0,
             Duration |-> 0, Mbps |-> Rat(0, 1), FaultCount |-> 0,
             HadFault |-> FALSE]

\* ------------------------------------------------------------ initial state
EngineInit ==
    /\ dir \in {Download, Upload}
    /\ threads \in 1..MaxThreads
    /\ maxBytes \in 1..MaxCap
    /\ threads * maxBytes <= MaxTotal
    /\ totalBytes = 0
    /\ faultCount = 0
    /\ ctxDone = FALSE
    /\ sessionExpired = FALSE
    /\ cancelCalled = FALSE
    /\ rpc = "wait"
    /\ spc = "running"
    /\ sawNegative = FALSE
    /\ wpc = [w \in Workers |-> "start"]
    /\ status = [w \in Workers |-> "none"]
    /\ total = [w \in Workers |-> 0]
    /\ fault = [w \in Workers |-> FALSE]
    /\ erred = [w \in Workers |-> FALSE]
    /\ remaining = [w \in Workers |-> 0]
    /\ count = [w \in Workers |-> 0]
    /\ tpc = [w \in Workers |-> "idle"]
    /\ pend = [w \in Workers |-> 0]
    /\ sent = [w \in Workers |-> 0]
    /\ contrib = [w \in Workers |-> 0]
    /\ result = NoResult

\* The engine at rest, where only the resolver is looked at.
EngineIdle ==
    /\ dir = Download /\ threads = 1 /\ maxBytes = 1
    /\ totalBytes = 0 /\ faultCount = 0
    /\ ctxDone = FALSE /\ sessionExpired = FALSE /\ cancelCalled = FALSE
    /\ rpc = "idle" /\ spc = "idle" /\ sawNegative = FALSE
    /\ wpc = <<"idle">> /\ status = <<"none">> /\ total = <<0>>
    /\ fault = <<FALSE>> /\ erred = <<FALSE>> /\ remaining = <<0>>
    /\ count = <<0>> /\ tpc = <<"idle">> /\ pend = <<0>> /\ sent = <<0>>
    /\ contrib = <<0>> /\ result = NoResult

Running == rpc /= "returned"

\* ------------------------------------------------------------ environment
\* The caller cancels ctx (process interrupt).
CallerCancel ==
    /\ Running /\ ~ctxDone
    /\ ctxDone' = TRUE
    /\ UNCHANGED <<chooseVars, callVars>>
    /\ UNCHANGED <<dir, threads, maxBytes, totalBytes, faultCount,
                   sessionExpired, cancelCalled, rpc, spc, sawNegative, wpc, status,
                   total, fault, erred, remaining, count, tpc,
                   pend, sent, contrib, result>>

\* The timeout+2s deadline of ctx2 fires.
SessionDeadline ==
    /\ Running /\ ~sessionExpired /\ ~cancelCalled
    /\ sessionExpired' = TRUE
    /\ UNCHANGED <<chooseVars, callVars>>
    /\ UNCHANGED <<dir, threads, maxBytes, totalBytes, faultCount, ctxDone,
                   cancelCalled, rpc, spc, sawNegative, wpc, status, total, fault, erred, remaining, count, tpc, pend, sent,
                   contrib, result>>

\* ------------------------------------------------------------ worker
\* The goroutine's tail: "if fault { faultCount.Add(1) }" and wg.Done().
FaultCountAfter_Always(fc, f) == fc + 1
FaultCountAfter(fc, f) == IF f THEN fc + 1 ELSE fc

\* What a worker's return does to the session context: nothing.
SessionAfterWorker_FailFast(f, c) == f \/ c
SessionAfterWorker(f, c) == c

WorkerReturn(w, f, e) ==
    /\ fault' = [fault EXCEPT ![w] = f]
    /\ erred' = [erred EXCEPT ![w] = e]
    /\ faultCount' = FaultCountAfter(faultCount, f)
    /\ cancelCalled' = SessionAfterWorker(f, cancelCalled)
    /\ wpc' = [wpc EXCEPT ![w] = "done"]

\* The goroutine starts; doDownload / doUpload builds its request and calls
\* client.Do.  For an upload the transport starts reading the body cr.
WorkerStart(w) ==
    /\ Running /\ wpc[w] = "start"
    /\ wpc' = [wpc EXCEPT ![w] = "do"]
    /\ IF dir = Upload
         THEN /\ remaining' = [remaining EXCEPT ![w] = maxBytes]
              /\ tpc' = [tpc EXCEPT ![w] = "reading"]
         ELSE UNCHANGED <<remaining, tpc>>
    /\ UNCHANGED <<chooseVars, callVars>>
    /\ UNCHANGED <<dir, threads, maxBytes, totalBytes, faultCount, ctxDone,
                   sessionExpired, cancelCalled, rpc, spc, sawNegative, status, total,
                   fault, erred, count, pend, sent, contrib,
                   result>>

\* What doDownload / doUpload returns when client.Do fails:
\* "return 0, true" / "return cr.count.Load(), true": faulted, no rollback.
DoFailed_RollsBack(w) ==
    /\ WorkerReturn(w, TRUE, TRUE)
    /\ totalBytes' = totalBytes - contrib[w]
    /\ contrib' = [contrib EXCEPT ![w] = 0]
    /\ UNCHANGED <<chooseVars, callVars>>
    /\ UNCHANGED <<dir, threads, maxBytes, ctxDone,
                   sessionExpired, rpc, spc, sawNegative, status, total, remaining, count, tpc, pend, sent,
                   result>>
DoFailed(w) ==
    /\ WorkerReturn(w, TRUE, TRUE)
    /\ UNCHANGED <<chooseVars, callVars>>
    /\ UNCHANGED <<dir, threads, maxBytes, totalBytes, ctxDone,
                   sessionExpired, rpc, spc, sawNegative, status, total, remaining, count, tpc, pend, sent, contrib,
                   result>>

\* client.Do returns a transport error on its own (connection failure).
DoError(w) ==
    /\ Running /\ wpc[w] = "do"
    /\ DoFailed(w)

\* The per-attempt deadline of doDownload / doUpload fires during client.Do.
AttemptTimeout(w) ==
    /\ Running /\ wpc[w] = "do"
    /\ DoFailed(w)

\* client.Do is aborted because the attempt's context is done.
DoAbort(w) ==
    /\ Running /\ wpc[w] = "do" /\ AttemptCtxDone(w)
    /\ DoFailed(w)

\* doDownload: client.Do returns a response.
DownloadResponse(w, st) ==
    /\ Running /\ dir = Download /\ wpc[w] = "do"
    /\ status' = [status EXCEPT ![w] = st]
    /\ IF st = "rej"
         THEN WorkerReturn(w, TRUE, FALSE)
         ELSE /\ wpc' = [wpc EXCEPT ![w] = "read"]
              /\ UNCHANGED <<fault, erred, faultCount, cancelCalled>>
    /\ UNCHANGED <<chooseVars, callVars>>
    /\ UNCHANGED <<dir, threads, maxBytes, totalBytes, ctxDone,
                   sessionExpired, rpc, spc, sawNegative, total, remaining, count,
                   tpc, pend, sent, contrib, result>>

\* doDownload: one iteration of the read loop with Read returning (n, e).
DownloadLoop_RollsBack(w, n, e) ==
    LET t == IF n > 0 THEN total[w] + n ELSE total[w] IN
    /\ total' = [total EXCEPT ![w] = t]
    /\ IF e = "err" /\ t < maxBytes
         THEN /\ totalBytes' = totalBytes - total[w]
              /\ contrib' = [contrib EXCEPT ![w] = @ - total[w]]
         ELSE IF n > 0
           THEN /\ totalBytes' = totalBytes + n
                /\ contrib' = [contrib EXCEPT ![w] = @ + n]
           ELSE UNCHANGED <<totalBytes, contrib>>
    /\ IF t >= maxBytes
         THEN WorkerReturn(w, FALSE, e = "err")
         ELSE IF e /= "nil"
           THEN WorkerReturn(w, e /= "EOF", e /= "EOF")
           ELSE UNCHANGED <<wpc, fault, erred, faultCount, cancelCalled>>
    /\ UNCHANGED <<chooseVars, callVars>>
    /\ UNCHANGED <<dir, threads, maxBytes, ctxDone, sessionExpired, rpc, spc,
                   sawNegative, status, remaining, count, tpc, pend, sent,
                   result>>
DownloadLoop(w, n, e) ==
    LET t == IF n > 0 THEN total[w] + n ELSE total[w] IN
    /\ total' = [total EXCEPT ![w] = t]
    /\ IF n > 0
         THEN /\ totalBytes' = AtomicAddInt64(totalBytes, n)
              /\ contrib' = [contrib EXCEPT ![w] = @ + n]
         ELSE UNCHANGED <<totalBytes, contrib>>
    /\ IF t >= maxBytes
         THEN WorkerReturn(w, FALSE, e = "err")
         ELSE IF e /= "nil"
           THEN WorkerReturn(w, e /= "EOF", e /= "EOF")
           ELSE UNCHANGED <<wpc, fault, erred, faultCount, cancelCalled>>
    /\ UNCHANGED <<chooseVars, callVars>>
    /\ UNCHANGED <<dir, threads, maxBytes, ctxDone, sessionExpired, rpc, spc,
                   sawNegative, status, remaining, count, tpc, pend, sent,
                   result>>

\* resp.Body.Read(buf) delivers n units of the body, and io.EOF with or
\* after the last of them.  The length of the body is the server's choice.
DownloadRead(w) ==
    /\ Running /\ wpc[w] = "read"
    /\ \E n \in 0..MaxChunk :
         \E e \in {"nil", "EOF"} :
            /\ (e = "nil") => n > 0
            /\ DownloadLoop(w, n, e)

\* resp.Body.Read(buf) fails on its own (connection reset, per-attempt
\* deadline), possibly after delivering some data.
DownloadReadError(w) ==
    /\ Running /\ wpc[w] = "read"
    /\ \E n \in 0..MaxChunk : DownloadLoop(w, n, "err")

\* resp.Body.Read(buf) fails because the attempt's context is done.
DownloadReadAbort(w) ==
    /\ Running /\ wpc[w] = "read" /\ AttemptCtxDone(w)
    /\ DownloadLoop(w, 0, "err")

\* zeroReader.Read on a buffer of len units, with z.remaining = rem: the
\* length returned, whether io.EOF was returned, and z.remaining afterwards.
zeroReaderRead_FullBuffer(rem, len) ==
    IF rem <= 0 THEN [n |-> 0, eof |-> TRUE, remaining |-> rem]
    ELSE [n |-> len, eof |-> FALSE, remaining |-> rem - len]
zeroReaderRead(rem, len) ==
    IF rem <= 0 THEN [n |-> 0, eof |-> TRUE, remaining |-> rem]
    ELSE LET n == Min(len, rem) IN
         [n |-> n, eof |-> FALSE, remaining |-> rem - n]

\* countingReader.Read called by the transport with a buffer of len units:
\* zeroReader.Read, then c.count.Add(n).  At end of body the transport stops.
TransportRead(w, len) ==
    /\ Running /\ tpc[w] = "reading"
    /\ IF zeroReaderRead(remaining[w], len).eof
         THEN /\ tpc' = [tpc EXCEPT ![w] = "stopped"]
              /\ UNCHANGED <<remaining, count, pend>>
         ELSE LET n == zeroReaderRead(remaining[w], len).n IN
              /\ remaining' = [remaining EXCEPT ![w] = @ - n]
              /\ count' = [count EXCEPT ![w] = @ + n]
              /\ pend' = [pend EXCEPT ![w] = n]
              /\ tpc' = [tpc EXCEPT ![w] = "counted"]
    /\ UNCHANGED <<chooseVars, callVars>>
    /\ UNCHANGED <<dir, threads, maxBytes, totalBytes, faultCount, ctxDone,
                   sessionExpired, cancelCalled, rpc, spc, sawNegative, wpc, status,
                   total, fault, erred, sent, contrib, result>>

\* countingReader.Read: atomic.AddInt64(c.shared, int64(n)), then return.
TransportAdd(w) ==
    /\ Running /\ tpc[w] = "counted"
    /\ totalBytes' = AtomicAddInt64(totalBytes, pend[w])
    /\ contrib' = [contrib EXCEPT ![w] = @ + pend[w]]
    /\ pend' = [pend EXCEPT ![w] = 0]
    /\ tpc' = [tpc EXCEPT ![w] = "reading"]
    /\ UNCHANGED <<chooseVars, callVars>>
    /\ UNCHANGED <<dir, threads, maxBytes, faultCount, ctxDone,
                   sessionExpired, cancelCalled, rpc, spc, sawNegative, wpc, status,
                   total, fault, erred, remaining, count, sent,
                   result>>

\* doUpload: client.Do returns a response, io.Copy drains its body, and the
\* status is tested.  On >= 400, "sent := cr.count.Load()".
UploadResponse(w, st) ==
    /\ Running /\ dir = Upload /\ wpc[w] = "do"
    /\ status' = [status EXCEPT ![w] = st]
    /\ IF st = "rej"
         THEN /\ sent' = [sent EXCEPT ![w] = count[w]]
              /\ wpc' = [wpc EXCEPT ![w] = "rollback"]
              /\ UNCHANGED <<fault, erred, faultCount, cancelCalled>>
         ELSE /\ WorkerReturn(w, FALSE, FALSE)
              /\ UNCHANGED sent
    /\ UNCHANGED <<chooseVars, callVars>>
    /\ UNCHANGED <<dir, threads, maxBytes, totalBytes, ctxDone,
                   sessionExpired, rpc, spc, sawNegative, total, remaining, count, tpc, pend, contrib, result>>

\* doUpload: "atomic.AddInt64(shared, -sent)" and "return 0, true".
UploadRollback(w) ==
    /\ Running /\ wpc[w] = "rollback"
    /\ totalBytes' = AtomicAddInt64(totalBytes, -sent[w])
    /\ contrib' = [contrib EXCEPT ![w] = @ - sent[w]]
    /\ WorkerReturn(w, TRUE, FALSE)
    /\ UNCHANGED <<chooseVars, callVars>>
    /\ UNCHANGED <<dir, threads, maxBytes, ctxDone, sessionExpired, rpc, spc,
                   sawNegative, status, total, remaining, count, tpc,
                   pend, sent, result>>

\* ------------------------------------------------------------ sampler
\* "case <-ticker.C": "cur := atomic.LoadInt64(&totalBytes)" and the progress
\* line built from cur.  The sampler writes no state of the program.
SamplerTick ==
    /\ Running /\ spc = "running"
    /\ sawNegative' = (sawNegative \/ totalBytes < 0)
    /\ UNCHANGED <<chooseVars, callVars>>
    /\ UNCHANGED <<dir, threads, maxBytes, totalBytes, faultCount, ctxDone,
                   sessionExpired, cancelCalled, rpc, spc, wpc, status, total,
                   fault, erred, remaining, count, tpc, pend,
                   sent, contrib, result>>

\* "case <-ctx2.Done(): return", closing progressDone.
SamplerExit ==
    /\ Running /\ spc = "running" /\ Ctx2Done
    /\ spc' = "exited"
    /\ UNCHANGED <<chooseVars, callVars>>
    /\ UNCHANGED <<dir, threads, maxBytes, totalBytes, faultCount, ctxDone,
                   sessionExpired, cancelCalled, rpc, sawNegative, wpc, status, total,
                   fault, erred, remaining, count, tpc, pend,
                   sent, contrib, result>>

\* ------------------------------------------------------------ Run
\* wg.Wait() returns and Run calls cancel().
RunJoin ==
    /\ rpc = "wait"
    /\ \A w \in Workers : wpc[w] = "done"
    /\ cancelCalled' = TRUE
    /\ rpc' = "drain"
    /\ UNCHANGED <<chooseVars, callVars>>
    /\ UNCHANGED <<dir, threads, maxBytes, totalBytes, faultCount, ctxDone,
                   sessionExpired, spc, sawNegative, wpc, status, total, fault, erred, remaining, count, tpc, pend, sent,
                   contrib, result>>

\* The Result built from the counter, the measured duration and faultCount.
ResultOf(tot, durMs, fc) ==
    [Direction |-> dir, Threads |-> threads, TotalBytes |-> tot,
     Duration |-> durMs, Mbps |-> MbpsOf(tot, Secs(durMs)),
     FaultCount |-> fc, HadFault |-> HadFaultOf(fc)]

\* "<-progressDone": the receive returns once the sampler has closed the
\* channel.
ProgressDone_Abandoned == TRUE
ProgressDone == spc = "exited"

\* "<-progressDone", then the aggregation and the return.
RunAggregate ==
    /\ rpc = "drain" /\ ProgressDone
    /\ \E durMs \in DurSet : result' = ResultOf(totalBytes, durMs, faultCount)
    /\ rpc' = "returned"
    /\ UNCHANGED <<chooseVars, callVars>>
    /\ UNCHANGED <<dir, threads, maxBytes, totalBytes, faultCount, ctxDone,
                   sessionExpired, cancelCalled, spc, sawNegative, wpc, status, total,
                   fault, erred, remaining, count, tpc, pend,
                   sent, contrib>>

\* ------------------------------------------------- the upload body, alone
\* One countingReader over a zeroReader of maxBytes, as doUpload builds it,
\* read by a caller that may pass a buffer of any length, an empty one
\* included, and may go on calling Read after io.EOF.  arg holds the buffer
\* lengths passed so far, ret what each Read returned.
ReaderInit ==
    /\ dir = Upload /\ threads = 1 /\ maxBytes \in 1..MaxCap
    /\ remaining = <<maxBytes>>
    /\ totalBytes = 0 /\ faultCount = 0
    /\ ctxDone = FALSE /\ sessionExpired = FALSE /\ cancelCalled = FALSE
    /\ rpc = "idle" /\ spc = "idle" /\ sawNegative = FALSE
    /\ wpc = <<"idle">> /\ status = <<"none">> /\ total = <<0>>
    /\ fault = <<FALSE>> /\ erred = <<FALSE>>
    /\ count = <<0>> /\ tpc = <<"idle">> /\ pend = <<0>> /\ sent = <<0>>
    /\ contrib = <<0>> /\ result = NoResult
    /\ fpc = "countingReader" /\ arg = <<>> /\ ret = <<>>

\* countingReader.Read(p) with len(p) = len, whole.
ReaderRead(len) ==
    /\ fpc = "countingReader" /\ Len(arg) < MaxReads
    /\ LET r == zeroReaderRead(remaining[1], len) IN
       /\ remaining' = [remaining EXCEPT ![1] = r.remaining]
       /\ IF r.n > 0
            THEN /\ count' = [count EXCEPT ![1] = @ + r.n]
                 /\ totalBytes' = AtomicAddInt64(totalBytes, r.n)
                 /\ contrib' = [contrib EXCEPT ![1] = @ + r.n]
            ELSE UNCHANGED <<count, totalBytes, contrib>>
       /\ ret' = Append(ret, [n |-> r.n, eof |-> r.eof])
    /\ arg' = Append(arg, len)
    /\ UNCHANGED <<fpc, chooseVars>>
    /\ UNCHANGED <<dir, threads, maxBytes, faultCount, ctxDone,
                   sessionExpired, cancelCalled, rpc, spc, sawNegative, wpc,
                   status, total, fault, erred, tpc, pend, sent, result>>

\* ================================================================ endpoint
\* A string that may hold an address: a dotted quad of decimal numbers, an
\* IPv6 literal or a host name, possibly surrounded by white space.
Str(k, o, pad) == [kind |-> k, o |-> o, pad |-> pad]
EmptyString == Str("empty", <<>>, FALSE)
Addr1 == Str("quad", <<1, 2, 3, 4>>, FALSE)
Addr1Padded == Str("quad", <<1, 2, 3, 4>>, TRUE)
Addr2 == Str("quad", <<5, 6, 7, 8>>, FALSE)
BadQuad == Str("quad", <<999, 1, 1, 1>>, FALSE)
AddrV6 == Str("v6", <<>>, FALSE)
HostName == Str("name", <<>>, FALSE)
DataStrings == {Addr1, Addr1Padded, Addr2, BadQuad, AddrV6, HostName}

\* strings.TrimSpace
TrimSpace(x) == [x EXCEPT !.pad = FALSE]

\* net.ParseIP(x) != nil: an IPv4 dotted quad with every part in 0..255, or
\* an IPv6 literal; nothing with white space around it.
ParseIP(x) ==
    /\ ~x.pad
    /\ \/ x.kind = "v6"
       \/ x.kind = "quad" /\ \A i \in 1..4 : x.o[i] >= 0 /\ x.o[i] <= 255

\* strings.Contains(x, ".")
ContainsDot(x) == x.kind \in {"quad", "name"}

\* ipv4Re.FindAllString on the text of one string: four groups of one to
\* three digits joined by dots.
ipv4Re(x) ==
    IF x.kind = "quad" /\ \A i \in 1..4 : x.o[i] >= 0 /\ x.o[i] <= 999
      THEN <<TrimSpace(x)>>
      ELSE <<>>

InSeq(x, q) == \E i \in 1..Len(q) : q[i] = x

\* The loop of resolveDoH over dr.Answer.
RECURSIVE AnswerLoop(_, _)
AnswerLoop(data, out) ==
    IF data = <<>> THEN out
    ELSE LET ip == TrimSpace(Head(data)) IN
         AnswerLoop(Tail(data),
                    IF ParseIP(ip) /\ ~InSeq(ip, out) THEN Append(out, ip)
                                                     ELSE out)

\* ipv4Re.FindAllString(string(body), -1)
RECURSIVE FindAllString(_)
FindAllString(data) ==
    IF data = <<>> THEN <<>> ELSE ipv4Re(Head(data)) \o FindAllString(Tail(data))

\* The loop of resolveDoH over the matches.
MatchLoop_KeepAll(all, out) == out \o all
RECURSIVE MatchLoop(_, _)
MatchLoop(all, out) ==
    IF all = <<>> THEN out
    ELSE MatchLoop(Tail(all),
                   IF ~InSeq(Head(all), out) THEN Append(out, Head(all))
                                             ELSE out)

\* resolveDoH, the structured parse: "json.Unmarshal(body, &dr) == nil &&
\* len(dr.Answer) > 0", then the loop.
StructuredParse(body) ==
    IF body.json /\ Len(body.data) > 0 THEN AnswerLoop(body.data, <<>>)
                                       ELSE <<>>

\* resolveDoH, the fallback over the raw body.
RegexScan(body) == MatchLoop(FindAllString(body.data), <<>>)

\* resolveDoH: "if len(out) > 0 { return out }" ends the structured parse.
StructuredWins_Never(out) == FALSE
StructuredWins(out) == Len(out) > 0

\* Choose: "if len(ips) == 0" selects the system resolver.
NeedSystem_AtMostOne(list) == Len(list) <= 1
NeedSystem(list) == Len(list) = 0

\* resolveSystem on what net.LookupHost returned.
RECURSIVE resolveSystem(_)
resolveSystem(addrs) ==
    IF addrs = <<>> THEN EmptyString
    ELSE IF ParseIP(Head(addrs)) /\ ContainsDot(Head(addrs)) THEN Head(addrs)
    ELSE resolveSystem(Tail(addrs))

\* promptChoice after "line = strings.TrimSpace(line)": the index chosen and
\* whether a warning was sent.
promptChoice_SilentDefault(cnt, ln) ==
    IF ln.kind = "int" /\ ln.n >= 1 /\ ln.n <= cnt
      THEN [choice |-> ln.n - 1, warn |-> FALSE]
      ELSE [choice |-> 0, warn |-> FALSE]
promptChoice_WarnBlank(cnt, ln) ==
    IF ln.kind = "int" /\ ln.n >= 1 /\ ln.n <= cnt
      THEN [choice |-> ln.n - 1, warn |-> FALSE]
      ELSE [choice |-> 0, warn |-> TRUE]
promptChoice(cnt, ln) ==
    IF ln.kind = "blank" THEN [choice |-> 0, warn |-> FALSE]
    ELSE IF ln.kind /= "int" \/ ln.n < 1 \/ ln.n > cnt
      THEN [choice |-> 0, warn |-> TRUE]
      ELSE [choice |-> ln.n - 1, warn |-> FALSE]

Endpoint(ip, desc) == [IP |-> ip, Desc |-> desc]
ZeroEndpoint == Endpoint(EmptyString, "")

\* ---- inputs
RECURSIVE SeqsUpTo(_, _)
SeqsUpTo(S, n) ==
    IF n = 0 THEN {<<>>}
    ELSE LET shorter == SeqsUpTo(S, n - 1) IN
         shorter \cup {Append(q, x) : q \in shorter, x \in S}

\* What the DoH request came to: a transport error, or a response with a
\* status and a body.  The body is a JSON object with an Answer array of
\* {data} records, or text with one string per line.
Bodies == [json : BOOLEAN, data : SeqsUpTo(DataStrings, MaxAnswers)]
Exchanges ==
    {[err |-> TRUE, code |-> 0, body |-> [json |-> FALSE, data |-> <<>>]]}
    \cup [err : {FALSE}, code : {200, 503}, body : Bodies]
NoExchange == [err |-> FALSE, code |-> 0, body |-> [json |-> FALSE, data |-> <<>>]]

\* What net.LookupHost came to.
Lookups == [err : BOOLEAN, addrs : SeqsUpTo({Addr1, AddrV6}, MaxAddrs)]

\* What fetchIPDesc returned.
Descs == {"lookup failed", "Tokyo, Japan (AS1234 Example)"}

\* What the user typed.
Lines == {[kind |-> "blank", n |-> 0], [kind |-> "junk", n |-> 0]}
         \cup [kind : {"int"}, n : 0..(MaxAnswers + 1)]
NoLine == [kind |-> "none", n |-> 0]

ChooseIdle ==
    /\ cpc = "idle" /\ host = "" /\ isTTY = FALSE /\ doh = NoExchange
    /\ ips = <<>> /\ endpoints = <<>> /\ ep = ZeroEndpoint
    /\ calls = <<>> /\ warns = <<>> /\ line = NoLine

ChooseInit ==
    /\ cpc = "start"
    /\ host \in {"", "mensura.cdn-apple.com"}
    /\ isTTY \in BOOLEAN
    /\ doh = NoExchange
    /\ ips = <<>> /\ endpoints = <<>> /\ ep = ZeroEndpoint
    /\ calls = <<>> /\ warns = <<>> /\ line = NoLine

\* Choose: "if host == \"\"".
HostMissing_Never(h) == FALSE
HostMissing(h) == h = ""

\* Choose: the test of host.
ChooseStart ==
    /\ cpc = "start"
    /\ IF HostMissing(host)
         THEN /\ warns' = Append(warns, "Could not parse host")
              /\ ep' = ZeroEndpoint
              /\ cpc' = "returned"
         ELSE /\ cpc' = "doh"
              /\ UNCHANGED <<warns, ep>>
    /\ UNCHANGED <<host, isTTY, doh, ips, endpoints, calls, line>>
    /\ UNCHANGED <<engineVars, callVars>>

\* resolveDoH: the request and the structured parse of the body.  The
\* status of the response is not looked at.
ResolveDoHStructured(x) ==
    /\ cpc = "doh"
    /\ doh' = x
    /\ calls' = Append(calls, "doh")
    /\ IF x.err
         THEN ips' = <<>> /\ cpc' = "resolved"
         ELSE LET out == StructuredParse(x.body) IN
              IF StructuredWins(out)
                THEN ips' = out /\ cpc' = "resolved"
                ELSE ips' = <<>> /\ cpc' = "regex"
    /\ UNCHANGED <<host, isTTY, endpoints, ep, warns, line>>
    /\ UNCHANGED <<engineVars, callVars>>

\* resolveDoH: the scan of the raw body.
ResolveDoHRegex ==
    /\ cpc = "regex"
    /\ calls' = Append(calls, "regex")
    /\ ips' = RegexScan(doh.body)
    /\ cpc' = "resolved"
    /\ UNCHANGED <<host, isTTY, doh, endpoints, ep, warns, line>>
    /\ UNCHANGED <<engineVars, callVars>>

\* Choose: "if len(ips) == 0 { ... }", the system resolver.
ChooseSystem(lk) ==
    /\ cpc = "resolved" /\ NeedSystem(ips)
    /\ calls' = Append(calls, "system")
    /\ LET fb == IF lk.err THEN EmptyString ELSE resolveSystem(lk.addrs) IN
       IF fb /= EmptyString
         THEN /\ ep' = Endpoint(fb, "system DNS fallback")
              /\ warns' = Append(warns, "DoH returned no IPv4 endpoint")
         ELSE /\ ep' = ZeroEndpoint
              /\ warns' = warns \o <<"DoH returned no IPv4 endpoint",
                                     "Could not resolve endpoint IP">>
    /\ cpc' = "returned"
    /\ UNCHANGED <<host, isTTY, doh, ips, endpoints, line>>
    /\ UNCHANGED <<engineVars, callVars>>

\* Choose: the loop calling fetchIPDesc for every candidate.
ChooseEnrich(ds) ==
    /\ cpc = "resolved" /\ ~NeedSystem(ips)
    /\ calls' = Append(calls, "geo")
    /\ endpoints' = [i \in 1..Len(ips) |-> Endpoint(ips[i], ds[i])]
    /\ cpc' = "select"
    /\ UNCHANGED <<host, isTTY, doh, ips, ep, warns, line>>
    /\ UNCHANGED <<engineVars, callVars>>

\* Choose: the selection, with promptChoice reading ln.
ChooseSelect(ln) ==
    /\ cpc = "select"
    /\ IF Len(endpoints) > 1 /\ isTTY
         THEN LET r == promptChoice(Len(endpoints), ln) IN
              /\ line' = ln
              /\ calls' = Append(calls, "prompt")
              /\ warns' = IF r.warn THEN Append(warns, "Invalid selection")
                                    ELSE warns
              /\ ep' = endpoints[r.choice + 1]
         ELSE /\ ln = NoLine
              /\ ep' = endpoints[1]
              /\ UNCHANGED <<line, calls, warns>>
    /\ cpc' = "returned"
    /\ UNCHANGED <<host, isTTY, doh, ips, endpoints>>
    /\ UNCHANGED <<engineVars, callVars>>

ChooseNext ==
    \/ ChooseStart
    \/ cpc = "doh" /\ \E x \in Exchanges : ResolveDoHStructured(x)
    \/ ResolveDoHRegex
    \/ cpc = "resolved" /\ \E lk \in Lookups : ChooseSystem(lk)
    \/ \E ds \in [1..Len(ips) -> Descs] : ChooseEnrich(ds)
    \/ \E ln \in Lines \cup {NoLine} : ChooseSelect(ln)

\* No call of fetchIPDesc, ParseSize or HostFromURL is under way.
CallIdle == fpc = "idle" /\ arg = "" /\ ret = ""

\* One call of Choose, on any inputs.
InitChoose == ChooseInit /\ EngineIdle /\ CallIdle

SpecChoose == InitChoose /\ [][ChooseNext]_vars

\* ------------------------------------------------------------ fetchIPDesc
\* What the geolocation request came to: a transport error, a body that
\* does not decode, or a decoded IPInfo.
GeoCity == {"", "Tokyo"}
GeoRegion == {"", "Tokyo", "Kanto"}
GeoCountry == {"", "Japan"}
GeoAS == {"", "AS1234 Example"}
GeoOrg == {"", "Example Org"}
GeoReplies ==
    [err : BOOLEAN, decoded : BOOLEAN, Status : {"success", "fail"},
     City : GeoCity, RegionName : GeoRegion, Country : GeoCountry,
     AS : GeoAS, Org : GeoOrg]

\* fetchIPDesc: "if info.RegionName != \"\" && info.RegionName != info.City".
ShowRegion(g) == g.RegionName /= "" /\ g.RegionName /= g.City

\* fetchIPDesc, from the reply to the string returned.
fetchIPDesc(g) ==
    IF g.err \/ ~g.decoded \/ g.Status /= "success" THEN "lookup failed"
    ELSE LET loc1 == g.City
             loc2 == IF ShowRegion(g) THEN loc1 \o ", " \o g.RegionName ELSE loc1
             loc3 == IF g.Country /= "" THEN loc2 \o ", " \o g.Country ELSE loc2
             loc  == IF loc3 = "" THEN "unknown location" ELSE loc3
             asn  == IF g.AS = "" THEN g.Org ELSE g.AS
         IN  IF asn /= "" THEN loc \o " (" \o asn \o ")" ELSE loc

DescInit == fpc = "fetchIPDesc" /\ arg \in GeoReplies /\ ret = ""

FetchIPDesc ==
    /\ fpc = "fetchIPDesc"
    /\ ret' = fetchIPDesc(arg)
    /\ fpc' = "returned"
    /\ UNCHANGED <<arg, engineVars, chooseVars>>

\* One call of fetchIPDesc, on any reply.
InitDesc == DescInit /\ EngineIdle /\ ChooseIdle

SpecDesc == InitDesc /\ [][FetchIPDesc]_vars

\* -------------------------------------------------------------- ParseSize
\* Natural numbers beyond 31 bits are sequences of limbs, each in
\* 0..Base-1, least significant first, the last one not 0: <<>> is 0,
\* <<0, 1>> is Base.
LimbBits == 15
Base == 2^LimbBits

RECURSIVE FromInt(_)
FromInt(n) == IF n = 0 THEN <<>> ELSE <<n % Base>> \o FromInt(n \div Base)

RECURSIVE Strip(_)
Strip(b) == IF b = <<>> \/ b[Len(b)] /= 0 THEN b ELSE Strip(SubSeq(b, 1, Len(b) - 1))

\* b * c + carry for an integer c <= Base
RECURSIVE MulSmall(_, _, _)
MulSmall(b, c, carry) ==
    IF b = <<>> THEN FromInt(carry)
    ELSE LET t == Head(b) * c + carry IN
         <<t % Base>> \o MulSmall(Tail(b), c, t \div Base)

\* b times every one of the factors
RECURSIVE Times(_, _)
Times(b, factors) ==
    IF factors = <<>> THEN b
    ELSE Times(Strip(MulSmall(b, Head(factors), 0)), Tail(factors))

\* b + 1
RECURSIVE Increment(_)
Increment(b) ==
    IF b = <<>> THEN <<1>>
    ELSE IF Head(b) < Base - 1 THEN <<Head(b) + 1>> \o Tail(b)
    ELSE <<0>> \o Increment(Tail(b))

\* quotient and remainder of b by an integer c < 2 * Base, from the top
\* limb down
RECURSIVE DivLoop(_, _, _, _, _)
DivLoop(b, i, c, rem, q) ==
    IF i = 0 THEN [q |-> Strip(q), r |-> rem]
    ELSE LET t == rem * Base + b[i] IN
         DivLoop(b, i - 1, c, t % c, <<t \div c>> \o q)
DivSmall(b, c) == DivLoop(b, Len(b), c, 0, <<>>)

\* the number of bits of b
BitLen(b) ==
    IF b = <<>> THEN 0
    ELSE LimbBits * (Len(b) - 1)
         + (CHOOSE k \in 1..LimbBits : 2^(k - 1) <= b[Len(b)] /\ b[Len(b)] < 2^k)

\* b * 2^s
ShiftLeft(b, s) ==
    IF b = <<>> THEN b
    ELSE [i \in 1..(s \div LimbBits) |-> 0]
         \o Strip(MulSmall(b, 2^(s % LimbBits), 0))

\* b \div 2^n, and whether a 1 bit was dropped
ShiftRight(b, n) ==
    LET limbs == Min(n \div LimbBits, Len(b))
        d == DivSmall(SubSeq(b, limbs + 1, Len(b)), 2^(n % LimbBits))
    IN  [q |-> d.q, more |-> d.r /= 0 \/ \E i \in 1..limbs : b[i] /= 0]

Odd(b) == b /= <<>> /\ b[1] % 2 = 1

Pow10(k) == IF k = 0 THEN 1 ELSE IF k = 1 THEN 10 ELSE IF k = 2 THEN 100
            ELSE IF k = 3 THEN 1000 ELSE 10000

\* A float64 that is not negative: mant * 2^exp, mant of at most MantBits
\* bits (one more, a power of two, when rounding carried out of the top).
MantBits == 53
Float(m, e) == [mant |-> m, exp |-> e]

\* b (with "more" telling that a non-zero fraction follows it) rounded to
\* MantBits bits, to nearest and to even on a tie; exp is the exponent of
\* the lowest bit of b.
RoundToFloat(b, more, exp) ==
    IF BitLen(b) <= MantBits THEN Float(b, exp)
    ELSE LET t == BitLen(b) - MantBits
             x == ShiftRight(b, t - 1)
             kept == ShiftRight(x.q, 1).q
             guard == Odd(x.q)
             sticky == more \/ x.more
             up == guard /\ (sticky \/ Odd(kept))
         IN  Float(IF up THEN Increment(kept) ELSE kept, exp + t)

\* strconv.ParseFloat on the digits D with k of them after the point: the
\* float64 nearest to D / 10^k.  The quotient is taken with GuardShift more
\* bits, enough to leave more than MantBits of them.
GuardShift == 70
ParseFloatValue(D, k) ==
    LET d == DivSmall(ShiftLeft(FromInt(D), GuardShift), Pow10(k))
    IN  RoundToFloat(d.q, d.r /= 0, 0 - GuardShift)

\* num * float64(mul): the exact product, rounded.  mul is a product of the
\* given factors and is itself a float64.
FloatTimes(x, factors) == RoundToFloat(Times(x.mant, factors), FALSE, x.exp)

\* int64(x) for 0 <= x < 2^63: the fraction is dropped.
Int64Of(x) ==
    IF x.exp >= 0 THEN ShiftLeft(x.mant, x.exp)
    ELSE ShiftRight(x.mant, 0 - x.exp).q

\* A size string: what precedes the number, the characters of the number
\* and the characters of the unit.
NumChars == {"0", "1", "2", "4", "5", "."}
Digit(c) == IF c = "0" THEN 0 ELSE IF c = "1" THEN 1 ELSE IF c = "2" THEN 2
            ELSE IF c = "4" THEN 4 ELSE 5
UnitTexts ==
    {<<>>, <<"k">>, <<"K">>, <<"k", "b">>, <<"K", "B">>, <<"m">>, <<"M">>,
     <<"M", "b">>, <<"g">>, <<"G">>, <<"G", "B">>, <<"t">>, <<"T">>,
     <<"t", "b">>, <<"k", "i", "b">>, <<"K", "i", "B">>, <<"M", "i", "B">>,
     <<"m", "i", "b">>, <<"G", "i", "B">>, <<"g", "I", "b">>,
     <<"T", "i", "B">>, <<"b">>, <<"B">>, <<"k", "i">>, <<"x">>}
Leads == {"", " ", "-"}
SizeStrings == [lead : Leads, num : SeqsUpTo(NumChars, MaxNum) , unit : UnitTexts]

\* strings.ToLower
LowerChar(c) ==
    IF c = "K" THEN "k" ELSE IF c = "M" THEN "m" ELSE IF c = "G" THEN "g"
    ELSE IF c = "T" THEN "t" ELSE IF c = "I" THEN "i" ELSE IF c = "B" THEN "b"
    ELSE c
ToLower(u) == [i \in 1..Len(u) |-> LowerChar(u[i])]

\* sizeRe: white space, one or more of digits and points, white space,
\* letters, white space.
sizeRe(s) == s.lead \in {"", " "} /\ Len(s.num) > 0

\* the digits of a number text without its point, as an integer, and the
\* count of digits after the point
RECURSIVE DigitsValue(_, _)
DigitsValue(t, acc) ==
    IF t = <<>> THEN acc
    ELSE IF Head(t) = "." THEN DigitsValue(Tail(t), acc)
    ELSE DigitsValue(Tail(t), acc * 10 + Digit(Head(t)))
Points(t) == Cardinality({i \in 1..Len(t) : t[i] = "."})
PointAt(t) == CHOOSE i \in 1..Len(t) : t[i] = "."
Places(t) == IF Points(t) = 0 THEN 0 ELSE Len(t) - PointAt(t)

\* strconv.ParseFloat fails on a text with no digit or more than one point
ParseFloatFails(t) == Points(t) > 1 \/ Points(t) = Len(t)

\* the switch of ParseSize: the factors of mul, <<0>> for an unknown unit
UnitFactors(u) ==
    IF u \in {<<"k">>, <<"k", "b">>} THEN <<1000>>
    ELSE IF u \in {<<"m">>, <<"m", "b">>} THEN <<1000, 1000>>
    ELSE IF u \in {<<"g">>, <<"g", "b">>} THEN <<1000, 1000, 1000>>
    ELSE IF u \in {<<"t">>, <<"t", "b">>} THEN <<1000, 1000, 1000, 1000>>
    ELSE IF u = <<"k", "i", "b">> THEN <<1024>>
    ELSE IF u = <<"m", "i", "b">> THEN <<1024, 1024>>
    ELSE IF u = <<"g", "i", "b">> THEN <<1024, 1024, 1024>>
    ELSE IF u = <<"t", "i", "b">> THEN <<1024, 1024, 1024, 1024>>
    ELSE <<0>>

SizeError == [err |-> TRUE, n |-> <<>>]
SizeOk(b) == [err |-> FALSE, n |-> b]

ParseSize(s) ==
    IF ~sizeRe(s) THEN SizeError
    ELSE IF ParseFloatFails(s.num) THEN SizeError
    ELSE LET num == ParseFloatValue(DigitsValue(s.num, 0), Places(s.num)) IN
         IF s.unit = <<>> THEN SizeOk(Int64Of(num))
         ELSE LET mul == UnitFactors(ToLower(s.unit)) IN
              IF mul = <<0>> THEN SizeError
              ELSE SizeOk(Int64Of(FloatTimes(num, mul)))

SizeInit == fpc = "ParseSize" /\ arg \in SizeStrings /\ ret = ""

ParseSizeCall ==
    /\ fpc = "ParseSize"
    /\ ret' = ParseSize(arg)
    /\ fpc' = "returned"
    /\ UNCHANGED <<arg, engineVars, chooseVars>>

\* One call of ParseSize, on any size string.
InitSize == SizeInit /\ EngineIdle /\ ChooseIdle

SpecSize == InitSize /\ [][ParseSizeCall]_vars

\* ------------------------------------------------------------ HostFromURL
\* A raw URL is a sequence of tokens: the delimiters ":", "//", "/", "@"
\* and the texts between them.  SchemeWords are the texts that begin with
\* a letter and hold only letters, digits, "+", "-" and "."; PortWords are
\* the texts of digits; an IPv6 literal comes in its brackets.
SchemeWords == {"http", "example.com", "user", "path", "abc", "not-a-url"}
PortWords == {"8080"}
Bracketed == {"[::1]"}
Unbracket(t) == IF t = "[::1]" THEN "::1" ELSE t

\* the parts a raw URL is put together from
UrlParts ==
    [scheme : {<<>>, <<"http", ":">>},
     slashes : {<<>>, <<"//">>},
     user : {<<>>, <<"user", "@">>},
     host : {<<>>, <<"example.com">>, <<"1.2.3.4">>, <<"[::1]">>, <<"not-a-url">>},
     port : {<<>>, <<":">>, <<":", "8080">>, <<":", "abc">>},
     path : {<<>>, <<"/", "path">>}]
RawURL(u) == u.scheme \o u.slashes \o u.user \o u.host \o u.port \o u.path

RECURSIVE JoinText(_)
JoinText(q) == IF q = <<>> THEN "" ELSE Head(q) \o JoinText(Tail(q))

Positions(q, t) == {i \in 1..Len(q) : q[i] = t}
FirstOf(S) == CHOOSE i \in S : \A j \in S : i <= j
LastOf(S) == CHOOSE i \in S : \A j \in S : i >= j

UrlError == [err |-> TRUE, Host |-> <<>>]
UrlOk(h) == [err |-> FALSE, Host |-> h]

\* net/url getScheme
getScheme(raw) ==
    IF raw /= <<>> /\ raw[1] = ":" THEN [err |-> TRUE, scheme |-> "", rest |-> raw]
    ELSE IF Len(raw) >= 2 /\ raw[1] \in SchemeWords /\ raw[2] = ":"
      THEN [err |-> FALSE, scheme |-> raw[1], rest |-> SubSeq(raw, 3, Len(raw))]
    ELSE [err |-> FALSE, scheme |-> "", rest |-> raw]

\* net/url validOptionalPort
validOptionalPort(p) ==
    p = <<>> \/ (p[1] = ":" /\ \A i \in 2..Len(p) : p[i] \in PortWords)

\* net/url parseHost
parseHost(h) ==
    IF h /= <<>> /\ h[1] \in Bracketed
      THEN IF validOptionalPort(Tail(h)) THEN UrlOk(h) ELSE UrlError
    ELSE IF Positions(h, ":") /= {}
      THEN IF validOptionalPort(SubSeq(h, LastOf(Positions(h, ":")), Len(h)))
             THEN UrlOk(h) ELSE UrlError
    ELSE UrlOk(h)

\* net/url parseAuthority: the host follows the last "@"
parseAuthority(a) ==
    IF Positions(a, "@") = {} THEN parseHost(a)
    ELSE parseHost(SubSeq(a, LastOf(Positions(a, "@")) + 1, Len(a)))

\* net/url Parse, as far as the Host of the URL
urlParse(raw) ==
    LET s == getScheme(raw)
        rest == s.rest
        slash == rest /= <<>> /\ rest[1] \in {"/", "//"}
        cut == Positions(rest, "/") \cup (Positions(rest, "//") \ {1})
        segment == IF cut = {} THEN rest ELSE SubSeq(rest, 1, FirstOf(cut) - 1)
    IN  IF s.err THEN UrlError
        ELSE IF ~slash
          THEN IF s.scheme /= "" THEN UrlOk(<<>>)
               ELSE IF Positions(segment, ":") /= {} THEN UrlError
               ELSE UrlOk(<<>>)
        ELSE IF rest[1] = "//" /\ (s.scheme /= "" \/ Len(rest) < 2 \/ rest[2] /= "/")
          THEN parseAuthority(SubSeq(segment, 2, Len(segment)))
        ELSE UrlOk(<<>>)

\* URL.Hostname: Host without a port and without brackets
Hostname_WithPort(h) == JoinText(h)
Hostname(h) ==
    IF h = <<>> THEN ""
    ELSE IF h[1] \in Bracketed THEN Unbracket(h[1])
    ELSE IF Positions(h, ":") /= {}
      THEN JoinText(SubSeq(h, 1, FirstOf(Positions(h, ":")) - 1))
    ELSE JoinText(h)

HostFromURL(raw) ==
    LET u == urlParse(raw) IN IF u.err THEN "" ELSE Hostname(u.Host)

HostInit == fpc = "HostFromURL" /\ arg \in UrlParts /\ ret = ""

HostFromURLCall ==
    /\ fpc = "HostFromURL"
    /\ ret' = HostFromURL(RawURL(arg))
    /\ fpc' = "returned"
    /\ UNCHANGED <<arg, engineVars, chooseVars>>

\* One call of HostFromURL, on any raw URL.
InitHost == HostInit /\ EngineIdle /\ ChooseIdle

SpecHost == InitHost /\ [][HostFromURLCall]_vars

\* One upload body, read by any sequence of Reads.
InitReader == ReaderInit /\ ChooseIdle

SpecReader == InitReader /\ [][\E len \in 0..MaxChunk : ReaderRead(len)]_vars

\* ------------------------------------------------------------ specification
WorkerStep(w) ==
    \/ WorkerStart(w)
    \/ DoError(w)
    \/ AttemptTimeout(w)
    \/ DoAbort(w)
    \/ \E st \in {"ok", "rej"} : DownloadResponse(w, st)
    \/ DownloadRead(w)
    \/ DownloadReadError(w)
    \/ DownloadReadAbort(w)
    \/ \E st \in {"ok", "rej"} : UploadResponse(w, st)
    \/ UploadRollback(w)

TransportStep(w) ==
    \/ \E len \in 1..MaxChunk : TransportRead(w, len)
    \/ TransportAdd(w)

Init == EngineInit /\ ChooseIdle /\ CallIdle

Next ==
    \/ CallerCancel
    \/ SessionDeadline
    \/ \E w \in Workers : WorkerStep(w)
    \/ \E w \in Workers : TransportStep(w)
    \/ SamplerTick
    \/ SamplerExit
    \/ RunJoin
    \/ RunAggregate

Spec == Init /\ [][Next]_vars

\* Steps the Go scheduler, the context package and the HTTP client take once
\* they are possible: a goroutine starts, a call whose context is done
\* returns, a goroutine that is not blocked goes on.
Progress ==
    \/ \E w \in Workers : WorkerStart(w)
    \/ \E w \in Workers : DoAbort(w)
    \/ \E w \in Workers : DownloadReadAbort(w)
    \/ \E w \in Workers : UploadRollback(w)
    \/ SamplerExit
    \/ RunJoin
    \/ RunAggregate

\* The deadline of ctx2 is a timer: it fires.  Nothing is assumed of the
\* servers, the network or the per-attempt timers.
SpecLive == Spec /\ WF_vars(Progress) /\ WF_vars(SessionDeadline)

\* As SpecLive, with no timer assumed to fire.
SpecCancel == Spec /\ WF_vars(Progress)

\* ------------------------------------------------------------ history sums
RECURSIVE SumTo(_, _)
SumTo(f, n) == IF n = 0 THEN 0 ELSE f[n] + SumTo(f, n - 1)
SumContrib == SumTo(contrib, threads)
Faulted == {w \in Workers : fault[w]}
Returned == rpc = "returned"

\* ------------------------------------------------------------ claims

\* C1: the counter value Run reads for Result.TotalBytes holds no bytes of an
\* upload worker whose response status was >= 400: that worker's net
\* contribution is exactly 0, also when the transport is still reading the
\* request body as the response arrives.
C1_RollbackInvariant ==
    Returned => \A w \in Workers : status[w] = "rej" => contrib[w] = 0

C2_Served(w) ==
    /\ status[w] = "ok" /\ ~erred[w]
    /\ dir = Download => total[w] >= maxBytes
    /\ dir = Upload => remaining[w] = 0 /\ tpc[w] /= "counted"
\* C2: if every worker is answered with a status < 400, no transport or read
\* error occurs and (download) the body delivers at least maxBytes, or
\* (upload) the whole body has been read and counted, then Run returns
\* TotalBytes = threads * maxBytes exactly and FaultCount = 0.
C2_CapsExact ==
    (Returned /\ \A w \in Workers : C2_Served(w))
        => /\ result.TotalBytes = threads * maxBytes
           /\ result.FaultCount = 0

\* C3: the shared counter always equals the arithmetic sum of every delta
\* applied to it, and the value Run reads after the join is that sum.
C3_NoLostUpdates ==
    /\ totalBytes = SumContrib
    /\ Returned => result.TotalBytes = SumContrib
\* two workers, one of which rolled back bytes it had counted, the other
\* having added bytes of its own
C3_Witness ==
    /\ Returned /\ threads = 2
    /\ \E w \in Workers : /\ status[w] = "rej" /\ sent[w] > 0
                           /\ \E v \in Workers \ {w} : contrib[v] > 0

\* C4: Run always returns a Result, and once the timeout+2s deadline of the
\* session has fired Run returns, whatever the servers do (workers whose
\* request is never answered included).
C4_RunTerminates ==
    /\ <>Returned
    /\ sessionExpired ~> Returned
\* Run returned after the deadline aborted a request that was never answered
C4_Witness ==
    /\ Returned /\ sessionExpired /\ ~ctxDone
    /\ \E w \in Workers : status[w] = "none" /\ erred[w]

\* C5: once the caller's context is cancelled, the session context and every
\* attempt's context are done, the sampler and the workers stop, and Run
\* returns a Result whose TotalBytes is what the shared counter holds.
C5_CancelBestEffort ==
    /\ ctxDone ~> (Returned /\ spc = "exited" /\ \A w \in Workers : wpc[w] = "done")
    /\ [](ctxDone => Ctx2Done /\ \A w \in Workers : AttemptCtxDone(w))
    /\ [](Returned => result.TotalBytes = totalBytes)
\* Run returned after a cancellation that aborted a request in flight, with
\* bytes already counted
C5_Witness ==
    /\ Returned /\ ctxDone /\ ~sessionExpired
    /\ result.TotalBytes > 0
    /\ \E w \in Workers : erred[w]

\* C6: FaultCount is the number of workers whose attempt ended with its
\* fault flag set, between 0 and Threads, and HadFault is FaultCount > 0.
C6_FaultCount ==
    Returned =>
        /\ result.FaultCount = Cardinality(Faulted)
        /\ result.FaultCount >= 0 /\ result.FaultCount <= result.Threads
        /\ result.HadFault <=> result.FaultCount > 0
\* two workers, exactly one of them faulted
C6_Witness ==
    /\ Returned /\ threads = 2 /\ Cardinality(Faulted) = 1
    /\ result.HadFault

C7_MaxOfOne(durMs) == IF durMs < 1000 THEN 1000 ELSE durMs
\* C7: Mbps = TotalBytes*8 / max(Duration.Seconds(), 1) / 1e6: the divisor
\* is the elapsed seconds and never less than 1.
C7_MbpsDividesByAtLeastOne ==
    Returned =>
        result.Mbps.num * C7_MaxOfOne(result.Duration) * 1000
            = result.TotalBytes * 8 * result.Mbps.den
\* C7, amended: Mbps = TotalBytes*8 / s / 1e6 where s is Duration.Seconds()
\* when that is positive, and 1 only when the measured duration is <= 0.
C7_MbpsGuarded ==
    Returned =>
        IF result.Duration > 0
          THEN result.Mbps.num * result.Duration * 1000
                   = result.TotalBytes * 8 * result.Mbps.den
          ELSE result.Mbps.num * 1000000
                   = result.TotalBytes * 8 * result.Mbps.den
\* a run shorter than one second that counted bytes
C7_Witness ==
    /\ Returned /\ result.Duration > 0 /\ result.Duration < 1000
    /\ result.TotalBytes > 0

\* C8: in every Result the divisor of Mbps is > 0, TotalBytes is >= 0 and
\* Mbps is >= 0.
C8_MbpsNonNegative ==
    Returned =>
        /\ Secs(result.Duration) > 0
        /\ result.TotalBytes >= 0
        /\ result.Mbps.num >= 0 /\ result.Mbps.den > 0

C9_SiblingSame(v) ==
    /\ wpc'[v] = wpc[v] /\ status'[v] = status[v] /\ total'[v] = total[v]
    /\ fault'[v] = fault[v] /\ erred'[v] = erred[v]
    /\ remaining'[v] = remaining[v] /\ count'[v] = count[v]
    /\ tpc'[v] = tpc[v] /\ pend'[v] = pend[v] /\ sent'[v] = sent[v]
    /\ contrib'[v] = contrib[v]
\* C9: the step in which a worker's attempt ends faulted leaves the session
\* context, Run, the sampler and every sibling worker as they were.
C9_FaultIsolation ==
    [][\A w \in Workers : (~fault[w] /\ fault'[w]) =>
          /\ Ctx2Done' = Ctx2Done
          /\ rpc' = rpc /\ spc' = spc
          /\ faultCount' = faultCount + 1
          /\ \A v \in Workers \ {w} : C9_SiblingSame(v)]_vars
\* one worker faulted, its sibling ran to its own cap, Run returned
C9_Witness ==
    /\ Returned /\ threads = 2 /\ dir = Download
    /\ \E w \in Workers : /\ fault[w]
                           /\ \E v \in Workers \ {w} :
                                 ~fault[v] /\ total[v] >= maxBytes
    /\ result.FaultCount = 1 /\ result.TotalBytes > 0

Called(c) == InSeq(c, calls)
C10_Orders ==
    {<<>>, <<"doh">>, <<"doh", "regex">>,
     <<"doh", "system">>, <<"doh", "regex", "system">>,
     <<"doh", "geo">>, <<"doh", "regex", "geo">>,
     <<"doh", "geo", "prompt">>, <<"doh", "regex", "geo", "prompt">>}
\* C10: the tiers come in order and the first success wins: the regex scan
\* runs only when the structured parse gave no address, the system resolver
\* only when resolveDoH returned an empty list, enrichment and selection
\* only on DoH candidates; Choose always goes on to return, and when every
\* tier gave nothing it warns and returns the zero-value Endpoint.
C10_TiersInOrder ==
    /\ calls \in C10_Orders
    /\ Called("regex") => ~doh.err /\ StructuredParse(doh.body) = <<>>
    /\ (cpc = "resolved" /\ ~Called("regex") /\ ~doh.err)
          => ips = StructuredParse(doh.body) /\ ips /= <<>>
    /\ Called("system") =>
          /\ ips = <<>>
          /\ doh.err \/ (StructuredParse(doh.body) = <<>>
                            /\ RegexScan(doh.body) = <<>>)
          /\ endpoints = <<>>
    /\ (Called("geo") \/ Called("prompt")) =>
          /\ ips /= <<>> /\ ~Called("system")
          /\ Len(endpoints) = Len(ips)
          /\ \A i \in 1..Len(ips) : endpoints[i].IP = ips[i]
    /\ cpc /= "returned" => ENABLED ChooseNext
    /\ cpc = "returned" =>
          /\ host = "" => ep = ZeroEndpoint /\ calls = <<>> /\ Len(warns) = 1
          /\ (host /= "" /\ ips /= <<>>) => InSeq(ep, endpoints)
          /\ (host /= "" /\ ips = <<>>) =>
                /\ Called("system")
                /\ ep.IP = EmptyString =>
                      /\ ep = ZeroEndpoint
                      /\ warns[Len(warns)] = "Could not resolve endpoint IP"
\* every tier was tried and gave nothing: a body with strings in it but no
\* address, then a system lookup without an IPv4 address
C10_Witness ==
    /\ cpc = "returned" /\ calls = <<"doh", "regex", "system">>
    /\ doh.body.data /= <<>>
    /\ ep = ZeroEndpoint /\ Len(warns) = 2

\* The addresses of the response in the order they occur in it: the trimmed
\* data strings net.ParseIP accepts (structured parse), or the matches of
\* ipv4Re in the raw body (fallback).
C11_Found ==
    IF Called("regex")
      THEN FindAllString(doh.body.data)
      ELSE SelectSeq([i \in 1..Len(doh.body.data) |->
                          TrimSpace(doh.body.data[i])], ParseIP)
C11_First(q, x) == CHOOSE k \in 1..Len(q) :
                       q[k] = x /\ \A m \in 1..(k - 1) : q[m] /= x
\* C11: the list resolveDoH returns, from the structured parse or from the
\* regex fallback, holds each distinct address of the response exactly once,
\* in the order of first occurrence.
C11_DedupFirstSeen ==
    (cpc = "resolved" /\ ~doh.err) =>
        /\ \A i, j \in 1..Len(ips) : i /= j => ips[i] /= ips[j]
        /\ {ips[i] : i \in 1..Len(ips)}
               = {C11_Found[k] : k \in 1..Len(C11_Found)}
        /\ \A i, j \in 1..Len(ips) :
               i < j => C11_First(C11_Found, ips[i]) < C11_First(C11_Found, ips[j])
\* the fallback met 1.2.3.4, 5.6.7.8, 1.2.3.4 and returned two candidates
C11_Witness ==
    /\ cpc = "resolved" /\ Called("regex")
    /\ C11_Found = <<Addr1, Addr2, Addr1>>
    /\ ips = <<Addr1, Addr2>>

\* C12: the prompt is shown exactly when more than one endpoint resolved and
\* the session is interactive, otherwise candidate 0 is taken; at the prompt
\* an entry n in 1..N takes candidate n-1, a blank entry takes candidate 0
\* with no warning, any other entry takes candidate 0 with a warning; the
\* index taken is always within 0..N-1.
C12_Selection ==
    (cpc = "returned" /\ Called("geo")) =>
        LET N == Len(endpoints) IN
        /\ Called("prompt") <=> (N > 1 /\ isTTY)
        /\ \E i \in 1..N : ep = endpoints[i]
        /\ ~Called("prompt") => ep = endpoints[1] /\ warns = <<>> /\ line = NoLine
        /\ Called("prompt") =>
              IF line.kind = "int" /\ line.n >= 1 /\ line.n <= N
                THEN ep = endpoints[line.n] /\ warns = <<>>
              ELSE IF line.kind = "blank"
                THEN ep = endpoints[1] /\ warns = <<>>
              ELSE ep = endpoints[1] /\ warns = <<"Invalid selection">>
\* at the prompt, with three candidates, the user typed 3
C12_Witness ==
    /\ cpc = "returned" /\ Called("prompt")
    /\ Len(endpoints) = 3 /\ line = [kind |-> "int", n |-> 3]
    /\ ep = endpoints[3] /\ ep /= endpoints[1]

\* C13: with an empty host Choose emits a warning and returns the zero-value
\* Endpoint; it sends no DoH, system-DNS or geolocation request and shows no
\* prompt, interactive session or not.
C13_EmptyHost ==
    host = "" =>
        /\ calls = <<>> /\ doh = NoExchange /\ line = NoLine
        /\ ips = <<>> /\ endpoints = <<>>
        /\ cpc \in {"start", "returned"}
        /\ cpc = "returned" =>
              /\ ep.IP = EmptyString /\ ep.Desc = ""
              /\ warns = <<"Could not parse host">>
\* Choose returned on an empty host in an interactive session
C13_Witness ==
    /\ host = "" /\ isTTY /\ cpc = "returned"
    /\ Len(warns) = 1 /\ ep.IP = EmptyString

\* The locality fields that are shown, in order, and their join with ", ".
C14_Parts(g) ==
    (IF g.City /= "" THEN <<g.City>> ELSE <<>>)
    \o (IF g.RegionName /= "" /\ g.RegionName /= g.City
          THEN <<g.RegionName>> ELSE <<>>)
    \o (IF g.Country /= "" THEN <<g.Country>> ELSE <<>>)
RECURSIVE C14_Join(_)
C14_Join(q) ==
    IF q = <<>> THEN ""
    ELSE IF Len(q) = 1 THEN q[1]
    ELSE q[1] \o ", " \o C14_Join(Tail(q))
C14_Failed(g) == g.err \/ ~g.decoded \/ g.Status /= "success"
C15_Decimal == {<<"k">>, <<"m">>, <<"g">>, <<"t">>,
                <<"k", "b">>, <<"m", "b">>, <<"g", "b">>, <<"t", "b">>}
C15_Binary == {<<"k", "i", "b">>, <<"m", "i", "b">>, <<"g", "i", "b">>,
               <<"t", "i", "b">>}
C15_Power(u) ==
    IF u \in {<<"k">>, <<"k", "b">>, <<"k", "i", "b">>} THEN 1
    ELSE IF u \in {<<"m">>, <<"m", "b">>, <<"m", "i", "b">>} THEN 2
    ELSE IF u \in {<<"g">>, <<"g", "b">>, <<"g", "i", "b">>} THEN 3
    ELSE 4
C15_Multiplier(u) ==
    IF u = <<>> THEN <<>>
    ELSE [i \in 1..C15_Power(u) |-> IF u \in C15_Binary THEN 1024 ELSE 1000]
C15_WellFormed(s) ==
    /\ s.lead /= "-"
    /\ \E i \in 1..Len(s.num) : s.num[i] /= "."
    /\ \A i, j \in 1..Len(s.num) : (s.num[i] = "." /\ s.num[j] = ".") => i = j
    /\ ToLower(s.unit) \in {<<>>} \cup C15_Decimal \cup C15_Binary
\* n times the multiplier, as quotient and remainder by the power of ten
\* that the digits after the point stand for
C15_Product(s) ==
    DivSmall(Times(FromInt(DigitsValue(s.num, 0)), C15_Multiplier(ToLower(s.unit))),
             Pow10(Places(s.num)))
\* C15: ParseSize returns n for a bare number n, n times the matching power
\* of 1000 for the units k, m, g, t, kb, mb, gb, tb and of 1024 for kib,
\* mib, gib, tib, in any letter case, whenever that product is a whole
\* number; any other unit and any unparsable string is an error.
C15_Multiplicative ==
    (fpc = "returned" /\ arg \in SizeStrings) =>
        IF C15_WellFormed(arg)
          THEN /\ ~ret.err
               /\ C15_Product(arg).r = 0 => ret.n = C15_Product(arg).q
          ELSE ret.err

\* A raw URL has a host when "//" opens an authority that names one; it
\* does not parse when its port is not a number.
C16_HasHost(u) == u.slashes /= <<>> /\ u.host /= <<>>
C16_BadPort(u) == u.port = <<":", "abc">>
\* C16: HostFromURL returns the host name of the URL without its port, and
\* the empty string when the URL does not parse or has no host.
C16_HostOrEmpty ==
    (fpc = "returned" /\ arg \in UrlParts) =>
        IF C16_HasHost(arg) /\ ~C16_BadPort(arg)
          THEN ret = Unbracket(arg.host[1])
          ELSE ret = ""
\* http://user@example.com:8080/path gave example.com
C16_Witness ==
    /\ fpc = "returned" /\ arg \in UrlParts
    /\ RawURL(arg) = <<"http", ":", "//", "user", "@", "example.com",
                       ":", "8080", "/", "path">>
    /\ ret = "example.com"

\* C17: the sampler goroutine never terminates while some worker has not
\* yet signalled completion, on normal completion, on the timeout+2s
\* deadline and on external cancellation alike.
C17_SamplerOutlivesWorkers ==
    spc = "exited" => \A w \in Workers : wpc[w] = "done"

\* C18: the counter read that gives Result.TotalBytes comes after every
\* worker has signalled completion and after the sampler has terminated, so
\* no progress event follows that read or Run's return.
C18_JoinedBeforeAggregation ==
    /\ Returned =>
          /\ \A w \in Workers : wpc[w] = "done"
          /\ spc = "exited"
          /\ ~ENABLED SamplerTick
    /\ spc = "exited" => ~ENABLED SamplerTick
    /\ rpc = "drain" => \A w \in Workers : wpc[w] = "done"
\* a run of two workers that ended on its own: the sampler was stopped by
\* Run's cancel() and joined, then Run returned
C18_Witness ==
    /\ Returned /\ threads = 2 /\ ~ctxDone /\ ~sessionExpired
    /\ cancelCalled /\ spc = "exited"
    /\ result.TotalBytes > 0

\* C19: during a download pass no step lowers the shared counter; a worker
\* whose request met a transport error before the response, or a status
\* >= 400, has added nothing and is faulted; the bytes a worker added before
\* a read error stay in the counter.
C19_DownloadNeverRollsBack ==
    /\ [][dir = Download =>
            /\ totalBytes' >= totalBytes
            /\ \A w \in Workers : contrib'[w] >= contrib[w]]_vars
    /\ [](dir = Download => \A w \in Workers :
            /\ contrib[w] = total[w]
            /\ (wpc[w] = "done" /\ status[w] \in {"none", "rej"})
                  => contrib[w] = 0 /\ fault[w]
            /\ (wpc[w] = "done" /\ status[w] = "ok" /\ erred[w]
                  /\ total[w] < maxBytes) => fault[w])
    /\ [](dir = Download /\ Returned => result.TotalBytes = SumTo(total, threads))
\* a download of two workers: one was refused, the other met a read error
\* after it had counted bytes, and Run returned those bytes
C19_Witness ==
    /\ Returned /\ dir = Download /\ threads = 2
    /\ \E w \in Workers :
          /\ status[w] = "rej" /\ contrib[w] = 0
          /\ \E v \in Workers \ {w} :
                /\ status[v] = "ok" /\ erred[v] /\ fault[v] /\ contrib[v] > 0
                /\ result.TotalBytes = contrib[v]

\* C20: an upload worker whose request ends with a transport error, with no
\* response, is faulted and subtracts nothing: what it had added stays in
\* the counter; a step lowers the counter only for a worker that was
\* answered with a status >= 400.
C20_UploadErrorKeepsBytes ==
    /\ [][\A w \in Workers :
            (dir = Upload /\ wpc[w] = "do" /\ wpc'[w] = "done" /\ erred'[w])
                => /\ fault'[w] /\ status'[w] = "none"
                   /\ totalBytes' = totalBytes
                   /\ contrib'[w] = contrib[w]]_vars
    /\ [][totalBytes' < totalBytes =>
            \E w \in Workers : status[w] = "rej" /\ wpc[w] = "rollback"]_vars
    /\ [](dir = Upload => \A w \in Workers :
            status[w] /= "rej" => /\ sent[w] = 0
                                  /\ contrib[w] = count[w] - pend[w])
\* an upload worker met a transport error after bytes of its body had been
\* counted, and Run returned them
C20_Witness ==
    /\ Returned /\ dir = Upload /\ threads = 1
    /\ status[1] = "none" /\ erred[1] /\ fault[1]
    /\ contrib[1] > 0 /\ result.TotalBytes = contrib[1]

\* C21: a download worker answered with a status < 400 goes on reading only
\* while its own count is below the cap; when it has stopped, it is faulted
\* exactly when a read returned an error other than end-of-stream, whatever
\* the chunk that error came with (end-of-stream is never a fault).
C21_FaultClassification ==
    dir = Download => \A w \in Workers :
        /\ wpc[w] = "read" => status[w] = "ok" /\ total[w] < maxBytes
        /\ (wpc[w] = "done" /\ status[w] = "ok") => (fault[w] <=> erred[w])

\* the lengths returned by the first k Reads, summed
RECURSIVE C22_Sum(_, _)
C22_Sum(q, k) == IF k = 0 THEN 0 ELSE q[k].n + C22_Sum(q, k - 1)
\* C22: whatever buffer lengths the Reads are given, the chunks returned by
\* the zero-filled reader sum to exactly maxBytes when end-of-stream is
\* returned, every later Read returns end-of-stream again, remaining never
\* goes below 0 and what the counting reader added to the shared counter
\* never exceeds maxBytes.
C22_BodyExactLength ==
    fpc = "countingReader" =>
        /\ remaining[1] >= 0
        /\ C22_Sum(ret, Len(ret)) + remaining[1] = maxBytes
        /\ \A i \in 1..Len(ret) :
              /\ ret[i].n >= 0 /\ ret[i].n <= arg[i]
              /\ (~ret[i].eof /\ arg[i] > 0) => ret[i].n > 0
              /\ ret[i].eof =>
                    /\ ret[i].n = 0
                    /\ C22_Sum(ret, i) = maxBytes
                    /\ \A j \in i..Len(ret) : ret[j].eof
        /\ count[1] = C22_Sum(ret, Len(ret))
        /\ contrib[1] = count[1] /\ totalBytes = contrib[1]
        /\ contrib[1] <= maxBytes
\* a body of 2 units read into buffers of 1, 0 and 2 units, then read again
\* at its end
C22_Witness ==
    /\ fpc = "countingReader" /\ maxBytes = 2
    /\ arg = <<1, 0, 2, 2>>
    /\ ret = <<[n |-> 1, eof |-> FALSE], [n |-> 0, eof |-> FALSE],
               [n |-> 1, eof |-> FALSE], [n |-> 0, eof |-> TRUE]>>
    /\ totalBytes = 2

\* C23: a DoH response with a status outside 200..299 is an empty DoH
\* result whatever its body holds: resolveDoH returns no candidate from it
\* and Choose goes on to the system resolver.
C23_Non2xxIsEmpty ==
    (Called("doh") /\ ~doh.err /\ (doh.code < 200 \/ doh.code > 299)) =>
        /\ cpc \in {"resolved", "select", "returned"} => ips = <<>>
        /\ ~Called("geo") /\ ~Called("prompt")
        /\ cpc = "returned" => Called("system")

\* a dotted quad with every octet in 0..255 and nothing around it
C24_IPv4(x) ==
    /\ x.kind = "quad" /\ ~x.pad
    /\ \A i \in 1..4 : x.o[i] >= 0 /\ x.o[i] <= 255
\* C24: every candidate resolveDoH returns, from the structured parse or
\* from the regex fallback, is a valid IPv4 address (no IPv6 address, no
\* quad out of range), and so is the address the system fallback returns.
C24_CandidatesAreIPv4 ==
    /\ \A i \in 1..Len(ips) : C24_IPv4(ips[i])
    /\ \A i \in 1..Len(endpoints) : C24_IPv4(endpoints[i].IP)
    /\ (cpc = "returned" /\ ep.IP /= EmptyString) => C24_IPv4(ep.IP)

\* how many times the prompt was shown and a line read
C25_Prompts == Cardinality({i \in 1..Len(calls) : calls[i] = "prompt"})
C25_Invalid(ln, N) ==
    ln.kind /= "blank" /\ ~(ln.kind = "int" /\ ln.n >= 1 /\ ln.n <= N)
\* C25: on an entry that is neither blank nor an integer in 1..N the prompt
\* warns and asks once more, so a second line is read before endpoint 1 is
\* taken; it never asks a third time.
C25_RepromptsOnce ==
    /\ C25_Prompts <= 2
    /\ (cpc = "returned" /\ Called("prompt")
          /\ C25_Invalid(line, Len(endpoints))) => C25_Prompts = 2
\* C25, amended: on an entry that is neither blank nor an integer in 1..N
\* the prompt warns once and takes endpoint 1 at once; no second line is
\* read, on any entry.
C25_WarnsAndDefaultsAtOnce ==
    /\ C25_Prompts <= 1
    /\ cpc = "select" => ENABLED ChooseNext
    /\ (cpc = "returned" /\ Called("prompt")
          /\ C25_Invalid(line, Len(endpoints))) =>
              /\ C25_Prompts = 1
              /\ warns = <<"Invalid selection">>
              /\ ep = endpoints[1]
\* with two candidates the user typed 3: one prompt, one warning, the first
\* candidate
C25_Witness ==
    /\ cpc = "returned" /\ Len(endpoints) = 2
    /\ line = [kind |-> "int", n |-> 3]
    /\ calls = <<"doh", "geo", "prompt">>
    /\ warns = <<"Invalid selection">> /\ ep = endpoints[1]

\* C26: in every reachable state of an upload pass the shared byte counter
\* is >= 0, however the counting reads interleave with the rollback; no
\* sampler tick has loaded a negative value and the total Run aggregates is
\* not negative.
C26_CounterNeverNegative ==
    dir = Upload =>
        /\ totalBytes >= 0
        /\ ~sawNegative
        /\ Returned => result.TotalBytes >= 0

====
